---- MODULE Spec2Model ----
(***************************************************************************)
(* auto-night-mode (src/main.rs): estimate the sunrise and sunset of the   *)
(* machine's location once, apply the Day/Night theme at startup, then     *)
(* poll the local clock every 30 seconds and apply the theme again when    *)
(* the classification changes.                                             *)
(***************************************************************************)
EXTENDS Integers, Sequences, FiniteSets, TLC

VARIABLES
    pc,          \* position of main: "start", "estimate", "startup", "sleep", "tick", "exit"
    exit,        \* why main returned: "none", "logger", "estimate", "set", "panic"
    env,         \* the outside world estimate reads: IP API answer, spa result, UTC offset
    location,    \* the LocationInfo of main (NoLocation before estimate returns)
    now,         \* Local::now().time(), in units of 1/SubPerSec second
    prev_theme,  \* main's prev_theme ("none" before line 147)
    seen,        \* themes returned by get_theme, in call order
    applied,     \* calls of Theme::set: [theme, at], at = index in seen of its classification
    cmds,        \* commands launched by Theme::set since the last sleep, in launch order
    failed,      \* commands Theme::set could not launch since the last sleep
    children,    \* child processes launched and not yet finished
    estimates,   \* calls of LocationInfo::estimate
    nticks,      \* completed sleeps of the poll loop
    cache,       \* the Location Cache file
    loaded       \* what the last load of the Location Cache returned

vars == <<pc, exit, env, location, now, prev_theme, seen, applied, cmds, failed,
          children, estimates, nticks, cache, loaded>>

----------------------------------------------------------------------------
(* Bounds of the model *)

\* resolution of the clock: sub-second units per second (chrono: 10^9)
SubPerSec == 2
\* iterations of the poll loop explored
MaxTicks == 2
\* spawn attempts that fail within one Theme::set call
MaxFail == 1

(* Program constants *)

\* Duration::from_secs(30)
PollSecs == 30

----------------------------------------------------------------------------
(* chrono::NaiveTime: a time of day, ordered by (seconds, fraction) *)

DayUnits == 24 * 60 * 60 * SubPerSec

from_hms(h, m, s) == ((h * 60 + m) * 60 + s) * SubPerSec

\* DateTime<Utc> -> DateTime<Local> -> .time(): shift by the zone offset,
\* keep the time of day
local_time(instant, offset) == (instant + offset) % DayUnits

Night == "Night"
Day == "Day"
Theme == {Night, Day}

NoLocation == [sunset |-> -1, sunrise |-> -1]

LocationInfo(sunset, sunrise) == [sunset |-> sunset, sunrise |-> sunrise]

get_theme_sunset_only(self, t) ==
    IF t > self.sunset THEN Night ELSE Day

get_theme_and(self, t) ==
    IF t > self.sunset /\ t < self.sunrise THEN Night ELSE Day

get_theme_strict(self, t) ==
    IF t >= self.sunset \/ t <= self.sunrise THEN Night ELSE Day

get_theme(self, t) ==
    IF t > self.sunset \/ t < self.sunrise THEN Night ELSE Day

----------------------------------------------------------------------------
(* LocationInfo::estimate *)

\* answers of the IP geolocation request: send() fails, json() fails, or
\* a latitude/longitude pair is parsed
IpAnswers == {"send_err", "json_err", "coords"}

\* spa::SunriseAndSet::Daylight carries two UTC instants, (sunrise, sunset)
Daylight(f0, f1) == [kind |-> "Daylight", f0 |-> f0, f1 |-> f1]

\* the instants a Daylight result carries: the first is the sunrise, the
\* second the sunset
spa_sunrise(r) == r.f0
spa_sunset(r) == r.f1

\* results of spa::calc_sunrise_and_set
SpaResults ==
    { [kind |-> "Err", f0 |-> 0, f1 |-> 0],
      [kind |-> "PolarNight", f0 |-> 0, f1 |-> 0],
      [kind |-> "PolarDay", f0 |-> 0, f1 |-> 0],
      Daylight(from_hms(4, 0, 0), from_hms(16, 0, 0)),
      Daylight(from_hms(4, 0, 0) + 1, from_hms(16, 0, 0) + 1),
      Daylight(from_hms(20, 0, 0), from_hms(8, 0, 0)) }

\* offsets of the local zone from UTC
TzOffsets == {0, from_hms(2, 0, 0)}

Sentinel == LocationInfo(from_hms(23, 59, 59), from_hms(0, 0, 0))

estimate_polar_err(e) ==
    IF e.ip # "coords" \/ e.spa.kind # "Daylight"
    THEN [ok |-> FALSE, info |-> NoLocation]
    ELSE [ok |-> TRUE,
          info |-> LocationInfo(local_time(e.spa.f1, e.tz), local_time(e.spa.f0, e.tz))]

estimate_default(e) ==
    IF e.ip = "coords" /\ e.spa.kind = "Daylight"
    THEN [ok |-> TRUE,
          info |-> LocationInfo(local_time(e.spa.f1, e.tz), local_time(e.spa.f0, e.tz))]
    ELSE [ok |-> TRUE, info |-> Sentinel]

estimate_as_named(e) ==
    IF e.ip # "coords" THEN [ok |-> FALSE, info |-> NoLocation]
    ELSE IF e.spa.kind = "Err" THEN [ok |-> FALSE, info |-> NoLocation]
    ELSE IF e.spa.kind = "Daylight"
    THEN LET set == local_time(e.spa.f0, e.tz)
             rise == local_time(e.spa.f1, e.tz)
         IN  [ok |-> TRUE, info |-> LocationInfo(set, rise)]
    ELSE [ok |-> TRUE, info |-> Sentinel]

estimate(e) ==
    IF e.ip # "coords" THEN [ok |-> FALSE, info |-> NoLocation]
    ELSE IF e.spa.kind = "Err" THEN [ok |-> FALSE, info |-> NoLocation]
    ELSE IF e.spa.kind = "Daylight"
    THEN \* Daylight(set, rise) => (rise.time(), set.time()) bound to (sunset, sunrise)
         LET set == local_time(e.spa.f0, e.tz)
             rise == local_time(e.spa.f1, e.tz)
         IN  [ok |-> TRUE, info |-> LocationInfo(rise, set)]
    ELSE [ok |-> TRUE, info |-> Sentinel]

----------------------------------------------------------------------------
(* Theme::set *)

\* format!("{}", matches!(self, Theme::Day))
is_day(self) == IF self = Day THEN "true" ELSE "false"

\* str::starts_with
starts_with(s, prefix) ==
    Len(s) >= Len(prefix) /\ SubSeq(s, 1, Len(prefix)) = prefix

\* the (path => (dark, light)) pairs written in the hashmap! literal, in order
ReplacementPairs ==
    << <<"/home/greg/.config/gtk-3.0/settings.ini",
         <<"Flat-Remix-GTK-Blue-Dark-Solid", "Flat-Remix-GTK-Blue-Solid">> >>,
       <<"/home/greg/.config/xsettingsd/xsettingsd.conf",
         <<"Flat-Remix-GTK-Blue-Dark-Solid", "Flat-Remix-GTK-Blue-Solid">> >>,
       <<"/home/greg/.config/gtk-3.0/settings.ini",
         <<"Papirus-Dark", "Papirus-Light">> >>,
       <<"/home/greg/.dotfiles/kitty/active_theme.conf",
         <<"dark.conf", "light.conf">> >> >>

\* maplit::hashmap!: insert the pairs one after the other; an insert under a
\* key already present replaces its value
RECURSIVE hashmap(_)
hashmap(pairs) ==
    IF pairs = <<>> THEN [k \in {} |-> <<>>]
    ELSE LET n == Len(pairs)
             m == hashmap(SubSeq(pairs, 1, n - 1))
             key == pairs[n][1]
         IN  [k \in (DOMAIN m) \cup {key} |-> IF k = key THEN pairs[n][2] ELSE m[k]]

replacements == hashmap(ReplacementPairs)

\* HashMap::iter visits every key once, in an order the hasher decides
IterOrders(m) ==
    { o \in [1..Cardinality(DOMAIN m) -> DOMAIN m] :
        \A k \in DOMAIN m : \E i \in DOMAIN o : o[i] = k }

\* one spawn attempt: the command line, and whether a spawn error is
\* returned with `?` (fatal) or reported and dropped
Step(argv, fatal) == [argv |-> argv, fatal |-> fatal, panic |-> FALSE]

\* Option::unwrap on a file name that is not UTF-8
PanicStep == [argv |-> <<>>, fatal |-> TRUE, panic |-> TRUE]

sd_steps(self, order) ==
    [i \in DOMAIN order |->
        LET path == order[i]
            r == replacements[path]
        IN  IF self = Day THEN Step(<<"sd", r[1], r[2], path>>, FALSE)
                          ELSE Step(<<"sd", r[2], r[1], path>>, FALSE)]

\* entries of /tmp as read_dir yields them: an io error, or a file name
\* that is or is not valid UTF-8
EntryErr == [ok |-> FALSE, utf8 |-> TRUE, name |-> ""]
Socket1 == [ok |-> TRUE, utf8 |-> TRUE, name |-> "kitty-socket-1"]
KittyLog == [ok |-> TRUE, utf8 |-> TRUE, name |-> "kitty.log"]
NotUtf8 == [ok |-> TRUE, utf8 |-> FALSE, name |-> ""]

\* results of read_dir("/tmp/"): an error, or a listing
ReadDirs ==
    { [ok |-> FALSE, entries |-> <<>>],
      [ok |-> TRUE, entries |-> <<>>],
      [ok |-> TRUE, entries |-> <<Socket1>>],
      [ok |-> TRUE, entries |-> <<KittyLog, EntryErr, Socket1>>],
      [ok |-> TRUE, entries |-> <<NotUtf8>>],
      [ok |-> TRUE, entries |-> <<Socket1, NotUtf8>>] }

kitty_conf(self) ==
    IF self = Night THEN "~/.dotfiles/kitty/dark.conf" ELSE "~/.dotfiles/kitty/light.conf"

\* the lazy filter_map / filter / for_each chain over the listing
RECURSIVE kitty_steps(_, _)
kitty_steps(self, entries) ==
    IF entries = <<>> THEN <<>>
    ELSE LET d == Head(entries)
             rest == Tail(entries)
         IN  IF ~d.ok THEN kitty_steps(self, rest)
             ELSE IF ~d.utf8 THEN <<PanicStep>>
             ELSE IF starts_with(d.name, "kitty-socket-")
             THEN <<Step(<<"kitty", "@", "--to=unix:" \o "/tmp/" \o d.name,
                           "set-colors", "-a", kitty_conf(self)>>, FALSE)>>
                  \o kitty_steps(self, rest)
             ELSE kitty_steps(self, rest)

HasPanic(steps) == \E i \in DOMAIN steps : steps[i].panic

tail_steps_lenient(self) ==
    << Step(<<"nvim-ctrl", "let $IS_DAY=\"" \o is_day(self) \o "\"">>, TRUE),
       Step(<<"nvim-ctrl", "source ~/.dotfiles/nvim/init.vim">>, TRUE),
       Step(<<"systemctl", "--user", "restart", "wallpaper">>, TRUE),
       Step(<<"fish", "/home/greg/.dotfiles/bin/theme">>, FALSE),
       Step(<<"systemctl", "--user", "reload-or-restart", "xsettingsd">>, TRUE) >>

\* lines 116-134: five spawns, each returned with `?`
tail_steps(self) ==
    << Step(<<"nvim-ctrl", "let $IS_DAY=\"" \o is_day(self) \o "\"">>, TRUE),
       Step(<<"nvim-ctrl", "source ~/.dotfiles/nvim/init.vim">>, TRUE),
       Step(<<"systemctl", "--user", "restart", "wallpaper">>, TRUE),
       Step(<<"fish", "/home/greg/.dotfiles/bin/theme">>, TRUE),
       Step(<<"systemctl", "--user", "reload-or-restart", "xsettingsd">>, TRUE) >>

\* the spawn attempts of one call, in program order
set_steps(self, order, dir) ==
    LET kitty == IF dir.ok THEN kitty_steps(self, dir.entries) ELSE <<>>
    IN  <<Step(<<"systemctl", "--user", "set-environment", "IS_DAY=" \o is_day(self)>>, TRUE)>>
        \o sd_steps(self, order)
        \o kitty
        \o (IF HasPanic(kitty) THEN <<>> ELSE tail_steps(self))

\* run the attempts from the i-th on; fail = the indices whose spawn fails
RECURSIVE run_steps(_, _, _, _)
run_steps(steps, i, fail, acc) ==
    IF i > Len(steps) THEN [acc EXCEPT !.res = "Ok"]
    ELSE IF steps[i].panic THEN [acc EXCEPT !.res = "panic"]
    ELSE IF i \in fail
         THEN LET a == [acc EXCEPT !.failed = Append(@, steps[i].argv)]
              IN  IF steps[i].fatal THEN [a EXCEPT !.res = "Err"]
                  ELSE run_steps(steps, i + 1, fail, a)
    ELSE run_steps(steps, i + 1, fail, [acc EXCEPT !.cmds = Append(@, steps[i].argv)])

\* Theme::set: its result, the commands launched, the commands not launched
set(self, order, dir, fail) ==
    run_steps(set_steps(self, order, dir), 1, fail,
              [res |-> "Ok", cmds |-> <<>>, failed |-> <<>>])

\* which spawn attempts of a call may fail
FailSets(n) == { f \in SUBSET (1..n) : Cardinality(f) <= MaxFail }

----------------------------------------------------------------------------
(* Location Cache: one file holding "HH:MM:SS,HH:MM:SS" *)

NoFile == [exists |-> FALSE, text |-> <<>>]

File(text) == [exists |-> TRUE, text |-> text]

\* load found no usable value
NoValue == [some |-> FALSE, info |-> NoLocation]

DigitChars == <<"0", "1", "2", "3", "4", "5", "6", "7", "8", "9">>

two_digits(n) == <<DigitChars[(n \div 10) + 1], DigitChars[(n % 10) + 1]>>

format_time_12h(t) ==
    LET secs == t \div SubPerSec
    IN  two_digits((secs \div 3600) % 12) \o <<":">> \o two_digits((secs \div 60) % 60)
        \o <<":">> \o two_digits(secs % 60)

\* a time of day as HH:MM:SS, 24-hour clock, the fraction of a second dropped
format_time(t) ==
    LET secs == t \div SubPerSec
    IN  two_digits(secs \div 3600) \o <<":">> \o two_digits((secs \div 60) % 60)
        \o <<":">> \o two_digits(secs % 60)

\* store: the two fields, comma-separated, replace the file's content
store(info) == File(format_time(info.sunset) \o <<",">> \o format_time(info.sunrise))

\* the fields of a text between the separators
RECURSIVE split(_, _)
split(text, sep) ==
    IF \A i \in DOMAIN text : text[i] # sep THEN <<text>>
    ELSE LET k == CHOOSE i \in DOMAIN text :
                      text[i] = sep /\ \A j \in 1..(i - 1) : text[j] # sep
         IN  <<SubSeq(text, 1, k - 1)>> \o split(SubSeq(text, k + 1, Len(text)), sep)

IsDigit(c) == \E d \in DOMAIN DigitChars : DigitChars[d] = c

digit(c) == (CHOOSE d \in DOMAIN DigitChars : DigitChars[d] = c) - 1

\* a two-digit decimal number, or -1
parse_two_digits(f) ==
    IF Len(f) = 2 /\ IsDigit(f[1]) /\ IsDigit(f[2]) THEN digit(f[1]) * 10 + digit(f[2])
    ELSE -1

\* a field HH:MM:SS as a time of day, or -1
parse_time(f) ==
    LET parts == split(f, ":")
    IN  IF Len(parts) # 3 THEN -1
        ELSE LET h == parse_two_digits(parts[1])
                 m == parse_two_digits(parts[2])
                 sec == parse_two_digits(parts[3])
             IN  IF h \in 0..23 /\ m \in 0..59 /\ sec \in 0..59 THEN from_hms(h, m, sec)
                 ELSE -1

\* load: nothing when the file is absent, has not exactly two fields or a
\* field is no time of day
load(file) ==
    IF ~file.exists THEN NoValue
    ELSE LET fields == split(file.text, ",")
         IN  IF Len(fields) # 2 THEN NoValue
             ELSE LET sunset == parse_time(fields[1])
                      sunrise == parse_time(fields[2])
                  IN  IF sunset = -1 \/ sunrise = -1 THEN NoValue
                      ELSE [some |-> TRUE, info |-> LocationInfo(sunset, sunrise)]

----------------------------------------------------------------------------
(* main *)

\* local times of day at which the process is started
StartTimes ==
    { from_hms(7, 0, 0), from_hms(5, 59, 30), from_hms(17, 59, 30),
      from_hms(23, 59, 29), from_hms(23, 59, 29) + 1 }

\* by how much thread::sleep overshoots the 30 seconds, in clock units
Overshoot == {0, 1}

Environments == [ip : IpAnswers, spa : SpaResults, tz : TzOffsets]

Init ==
    /\ pc = "start"
    /\ exit = "none"
    /\ env \in Environments
    /\ location = NoLocation
    /\ now \in StartTimes
    /\ prev_theme = "none"
    /\ seen = <<>>
    /\ applied = <<>>
    /\ cmds = <<>>
    /\ failed = <<>>
    /\ children = 0
    /\ estimates = 0
    /\ nticks = 0
    /\ cache = NoFile
    /\ loaded = NoValue

\* line 141: flexi_logger::Logger::with_env().start()?
LoggerStart ==
    /\ pc = "start"
    /\ \E ok \in BOOLEAN :
         IF ok THEN pc' = "estimate" /\ exit' = exit
               ELSE pc' = "exit" /\ exit' = "logger"
    /\ UNCHANGED <<env, location, now, prev_theme, seen, applied, cmds, failed,
                   children, estimates, nticks>>
    /\ UNCHANGED <<cache, loaded>>

\* line 143: let location = LocationInfo::estimate()?
Estimate ==
    /\ pc = "estimate"
    /\ estimates' = estimates + 1
    /\ LET r == estimate(env)
       IN  IF r.ok THEN pc' = "startup" /\ exit' = exit /\ location' = r.info
                   ELSE pc' = "exit" /\ exit' = "estimate" /\ location' = location
    /\ UNCHANGED <<env, now, prev_theme, seen, applied, cmds, failed, children, nticks>>
    /\ UNCHANGED <<cache, loaded>>

\* Command::spawn starts a child process and returns at once: the children
\* of the process after a call that launched cmds
SpawnedAndWaited(running, launched) == running

Spawned(running, launched) == running + Len(launched)

\* where main goes after a Theme::set()? call
AfterSetReturn(res) ==
    IF res = "Ok" THEN [pc |-> "exit", exit |-> "none"]
    ELSE IF res = "Err" THEN [pc |-> "exit", exit |-> "set"]
    ELSE [pc |-> "exit", exit |-> "panic"]

AfterSet(res) ==
    IF res = "Ok" THEN [pc |-> "sleep", exit |-> "none"]
    ELSE IF res = "Err" THEN [pc |-> "exit", exit |-> "set"]
    ELSE [pc |-> "exit", exit |-> "panic"]

\* one call theme.set()? by main, under any iteration order of the map, any
\* /tmp listing and any spawn failures
CallSet(theme) ==
    \E order \in IterOrders(replacements), dir \in ReadDirs :
      \E fail \in FailSets(Len(set_steps(theme, order, dir))) :
        LET r == set(theme, order, dir, fail)
            next == AfterSet(r.res)
        IN  /\ applied' = Append(applied, [theme |-> theme, at |-> Len(seen) + 1])
            /\ cmds' = r.cmds
            /\ failed' = r.failed
            /\ children' = Spawned(children, r.cmds)
            /\ pc' = next.pc
            /\ exit' = next.exit

StartupNoApply ==
    /\ pc = "startup"
    /\ LET theme == get_theme(location, now)
       IN  /\ seen' = Append(seen, theme)
           /\ prev_theme' = theme
    /\ pc' = "sleep"
    /\ UNCHANGED <<exit, env, location, now, applied, cmds, failed, children,
                   estimates, nticks>>
    /\ UNCHANGED <<cache, loaded>>

\* lines 147-148: the theme of the moment is applied
Startup ==
    /\ pc = "startup"
    /\ LET theme == get_theme(location, now)
       IN  /\ seen' = Append(seen, theme)
           /\ prev_theme' = theme
           /\ CallSet(theme)
    /\ UNCHANGED <<env, location, now, estimates, nticks>>
    /\ UNCHANGED <<cache, loaded>>

\* line 151: thread::sleep(Duration::from_secs(30))
Sleep ==
    /\ pc = "sleep"
    /\ nticks < MaxTicks
    /\ \E d \in Overshoot : now' = (now + PollSecs * SubPerSec + d) % DayUnits
    /\ nticks' = nticks + 1
    /\ pc' = "tick"
    /\ cmds' = <<>>
    /\ failed' = <<>>
    /\ UNCHANGED <<exit, env, location, prev_theme, seen, applied, children, estimates>>
    /\ UNCHANGED <<cache, loaded>>

\* line 154: theme != prev_theme
ThemeChangedAlways(theme, prev) == TRUE

ThemeChangedNever(theme, prev) == FALSE

ThemeChanged(theme, prev) == theme # prev

TickReestimate ==
    /\ pc = "tick"
    /\ estimates' = estimates + 1
    /\ location' = estimate(env).info
    /\ LET theme == get_theme(location', now)
       IN  /\ seen' = Append(seen, theme)
           /\ IF ThemeChanged(theme, prev_theme)
              THEN /\ CallSet(theme)
                   /\ prev_theme' = IF pc' = "sleep" THEN theme ELSE prev_theme
              ELSE /\ prev_theme' = theme
                   /\ pc' = "sleep"
                   /\ UNCHANGED <<exit, applied, cmds, failed, children>>
    /\ UNCHANGED <<env, now, nticks>>
    /\ UNCHANGED <<cache, loaded>>

\* lines 153-158: one iteration of the loop after the sleep
Tick ==
    /\ pc = "tick"
    /\ LET theme == get_theme(location, now)
       IN  /\ seen' = Append(seen, theme)
           /\ IF ThemeChanged(theme, prev_theme)
              THEN /\ CallSet(theme)
                   /\ prev_theme' = IF pc' = "sleep" THEN theme ELSE prev_theme
              ELSE /\ prev_theme' = theme
                   /\ pc' = "sleep"
                   /\ UNCHANGED <<exit, applied, cmds, failed, children>>
    /\ UNCHANGED <<env, location, now, estimates, nticks>>
    /\ UNCHANGED <<cache, loaded>>

\* a launched command finishes
ChildExit ==
    /\ children > 0
    /\ children' = children - 1
    /\ UNCHANGED <<pc, exit, env, location, now, prev_theme, seen, applied, cmds,
                   failed, estimates, nticks>>
    /\ UNCHANGED <<cache, loaded>>

\* the steps of main
Next ==
    \/ LoggerStart
    \/ Estimate
    \/ Startup
    \/ Sleep
    \/ Tick

Spec == Init /\ [][Next]_vars

\* main together with the commands it launched, which run on their own
InitProc ==
    /\ Init
    /\ env = [ip |-> "coords", spa |-> Daylight(from_hms(4, 0, 0), from_hms(16, 0, 0)),
              tz |-> from_hms(2, 0, 0)]
    /\ now \in {from_hms(5, 59, 30), from_hms(17, 59, 30)}

NextProc ==
    \/ LoggerStart
    \/ Estimate
    \/ Startup
    \/ Sleep
    \/ Tick
    \/ ChildExit

SpecProc == InitProc /\ [][NextProc]_vars

\* LocationInfo::get_theme on its own, over boundary values of the clock
SampleTimes ==
    { 0, 1, from_hms(6, 0, 0) - 1, from_hms(6, 0, 0), from_hms(6, 0, 0) + 1,
      from_hms(18, 0, 0) - 1, from_hms(18, 0, 0), from_hms(18, 0, 0) + 1,
      from_hms(23, 59, 59), from_hms(23, 59, 59) + 1, DayUnits - 1 }

InitTheme ==
    /\ pc = "get_theme"
    /\ exit = "none"
    /\ env \in {e \in Environments : e.ip = "coords" /\ e.spa.kind = "PolarDay" /\ e.tz = 0}
    /\ location \in {LocationInfo(a, b) : a \in SampleTimes, b \in SampleTimes}
    /\ now \in SampleTimes
    /\ prev_theme = "none"
    /\ seen = <<>>
    /\ applied = <<>>
    /\ cmds = <<>>
    /\ failed = <<>>
    /\ children = 0
    /\ estimates = 0
    /\ nticks = 0
    /\ cache = NoFile
    /\ loaded = NoValue

\* lines 11-19: one call location.get_theme()
GetTheme ==
    /\ pc = "get_theme"
    /\ seen' = Append(seen, get_theme(location, now))
    /\ pc' = "returned"
    /\ UNCHANGED <<exit, env, location, now, prev_theme, applied, cmds, failed,
                   children, estimates, nticks>>
    /\ UNCHANGED <<cache, loaded>>

NextTheme == GetTheme

SpecTheme == InitTheme /\ [][NextTheme]_vars

\* one full day of the poll loop, a tick exactly every 30 seconds
TickUnits == PollSecs * SubPerSec

TicksPerDay == DayUnits \div TickUnits

DaySpaResults ==
    { Daylight(from_hms(4, 0, 0), from_hms(16, 0, 0)),
      Daylight(from_hms(0, 0, 10), from_hms(16, 0, 0) + 1) }

InitDay ==
    /\ pc = "start"
    /\ exit = "none"
    /\ env \in [ip : {"coords"}, spa : DaySpaResults, tz : TzOffsets]
    /\ location = NoLocation
    /\ now \in {from_hms(7, 0, 0), from_hms(23, 59, 29) + 1}
    /\ prev_theme = "none"
    /\ seen = <<>>
    /\ applied = <<>>
    /\ cmds = <<>>
    /\ failed = <<>>
    /\ children = 0
    /\ estimates = 0
    /\ nticks = 0
    /\ cache = NoFile
    /\ loaded = NoValue

SleepDay ==
    /\ pc = "sleep"
    /\ nticks < TicksPerDay
    /\ now' = (now + TickUnits) % DayUnits
    /\ nticks' = nticks + 1
    /\ pc' = "tick"
    /\ cmds' = <<>>
    /\ failed' = <<>>
    /\ UNCHANGED <<exit, env, location, prev_theme, seen, applied, children, estimates>>
    /\ UNCHANGED <<cache, loaded>>

NextDay ==
    \/ LoggerStart
    \/ Estimate
    \/ Startup
    \/ SleepDay
    \/ Tick

SpecDay == InitDay /\ [][NextDay]_vars

\* the Location Cache on its own: a computed LocationInfo is stored, then
\* the file is loaded
CachedFiles ==
    { NoFile,
      File(<<>>),
      File(<<"0", "6", ":", "0", "0", ":", "0", "0">>),
      store(LocationInfo(from_hms(18, 0, 0), from_hms(6, 0, 0))) }

InitCache ==
    /\ pc = "store"
    /\ exit = "none"
    /\ env \in {e \in Environments : e.ip = "coords" /\ e.spa.kind = "PolarDay" /\ e.tz = 0}
    /\ location \in {LocationInfo(a, b) : a \in SampleTimes, b \in SampleTimes}
    /\ now \in {from_hms(7, 0, 0)}
    /\ prev_theme = "none"
    /\ seen = <<>>
    /\ applied = <<>>
    /\ cmds = <<>>
    /\ failed = <<>>
    /\ children = 0
    /\ estimates = 1
    /\ nticks = 0
    /\ cache \in CachedFiles
    /\ loaded = NoValue

StoreCache ==
    /\ pc = "store"
    /\ cache' = store(location)
    /\ pc' = "stored"
    /\ UNCHANGED <<exit, env, location, now, prev_theme, seen, applied, cmds, failed,
                   children, estimates, nticks, loaded>>

LoadCache ==
    /\ pc \in {"store", "stored"}
    /\ loaded' = load(cache)
    /\ pc' = IF pc = "stored" THEN "reloaded" ELSE "cold"
    /\ UNCHANGED <<exit, env, location, now, prev_theme, seen, applied, cmds, failed,
                   children, estimates, nticks, cache>>

NextCache ==
    \/ StoreCache
    \/ LoadCache

SpecCache == InitCache /\ [][NextCache]_vars

----------------------------------------------------------------------------
(* Properties *)

Last(s) == s[Len(s)]

\* the classifications that open a maximal run of equal classifications
RunStarts == { i \in DOMAIN seen : i = 1 \/ seen[i] # seen[i - 1] }

\* C1: Theme::set is invoked exactly once per maximal run of consecutive
\* classifications that are equal, at the first classification of the run
\* (the one that differs from the remembered theme), with that classification,
\* and at no classification that equals the remembered theme.
C1_SetOncePerRun ==
    /\ { applied[k].at : k \in DOMAIN applied } = RunStarts
    /\ Len(applied) = Cardinality(RunStarts)
    /\ \A k \in DOMAIN applied : applied[k].theme = seen[applied[k].at]
    /\ pc \in {"sleep", "tick"} /\ seen # <<>> => prev_theme = Last(seen)

\* a run of two equal classifications, then a change that is applied
C1_Witness ==
    /\ pc = "sleep"
    /\ Len(seen) = 3
    /\ seen[1] = seen[2]
    /\ seen[2] # seen[3]
    /\ Len(applied) = 2

\* C2: with sunrise < sunset, get_theme returns Day iff
\* sunrise <= now <= sunset and Night otherwise; the two boundary instants
\* are Day.
C2_DayIffBetween ==
    (pc = "returned" /\ location.sunrise < location.sunset) =>
        /\ Last(seen) \in Theme
        /\ Last(seen) = Day <=> (location.sunrise <= now /\ now <= location.sunset)

\* get_theme was called at the instant of sunset
C2_Witness ==
    /\ pc = "returned"
    /\ location.sunrise < location.sunset
    /\ now = location.sunset
    /\ Last(seen) = Day

\* C3: under the sentinel LocationInfo (sunset 23:59:59, sunrise 00:00:00)
\* every classification is Day, whatever the clock reads.
C3_SentinelAlwaysDay ==
    location = [sunset |-> from_hms(23, 59, 59), sunrise |-> from_hms(0, 0, 0)] =>
        \A i \in DOMAIN seen : seen[i] = Day

\* C4: once the location is resolved, the theme classified at startup is
\* applied exactly once before the first sleep and before any tick, whichever
\* theme it is; nothing is applied before.
C4_StartupAppliesOnce ==
    /\ pc \in {"start", "estimate", "startup"} => applied = <<>>
    /\ (location # NoLocation /\ pc # "startup") =>
          /\ Len(applied) >= 1
          /\ applied[1] = [theme |-> seen[1], at |-> 1]
    /\ nticks = 0 => Len(applied) <= 1 /\ Len(seen) <= 1

\* the startup theme is Night and has been applied; no sleep yet
C4_Witness ==
    /\ pc = "sleep"
    /\ nticks = 0
    /\ applied = <<[theme |-> Night, at |-> 1]>>

FatalPrograms == {"systemctl", "nvim-ctrl", "fish"}

\* C5 as stated: after an application in which the launch of any command
\* failed, main has returned with an error.
C5_AnyFailureTerminates ==
    failed # <<>> => pc = "exit" /\ exit \in {"set", "panic"}

\* C5 amended: a failure to launch a systemctl, nvim-ctrl or fish command
\* makes main return the error, at startup and on a tick alike; main returns
\* an error of Theme::set for no other reason.
C5_FatalLaunchFailures ==
    /\ (\E i \in DOMAIN failed : failed[i][1] \in FatalPrograms) =>
          pc = "exit" /\ exit = "set"
    /\ exit = "set" =>
          /\ pc = "exit"
          /\ failed # <<>>
          /\ Last(failed)[1] \in FatalPrograms

\* on a tick, fish could not be launched and main returned the error
C5_Witness ==
    /\ nticks >= 1
    /\ pc = "exit"
    /\ exit = "set"
    /\ failed # <<>>
    /\ Last(failed)[1] = "fish"

\* the resolution fails: no answer, an answer without coordinates, or an
\* error of the solar calculation
ResolutionFails(e) == e.ip \in {"send_err", "json_err"} \/ e.spa.kind = "Err"

\* C6: when the location resolution fails, estimate is called once, main
\* returns its error, no LocationInfo exists, Theme::set is never invoked and
\* the poll loop is never entered.
C6_ResolutionFailureFatal ==
    (estimates >= 1 /\ ResolutionFails(env)) =>
        /\ pc = "exit"
        /\ exit = "estimate"
        /\ estimates = 1
        /\ location = NoLocation
        /\ seen = <<>>
        /\ applied = <<>>
        /\ children = 0
        /\ nticks = 0

\* the solar calculation returned an error
C6_Witness ==
    /\ env.ip = "coords"
    /\ env.spa.kind = "Err"
    /\ estimates = 1
    /\ pc = "exit"

\* C7 as stated: once an application has returned, every command it
\* launched has finished.
C7_CommandsFinishedOnReturn ==
    applied # <<>> => children = 0

\* C7 amended: applications happen one at a time, one per step of main at
\* startup or on a tick, and an application only launches its commands: it
\* waits for none, so each command it launched is a running child when it
\* returns, next to those of earlier applications that still run.
C7_SequentialNoWait ==
    [][Len(applied') # Len(applied) =>
          /\ Len(applied') = Len(applied) + 1
          /\ pc \in {"startup", "tick"}
          /\ pc' \in {"sleep", "exit"}
          /\ children' = children + Len(cmds')]_vars

\* a second application has returned while a command of the first still runs
C7_Witness ==
    /\ Len(applied) = 2
    /\ pc = "sleep"
    /\ cmds # <<>>
    /\ children > Len(cmds)

\* C8 as stated: main returns only with an error of the location resolution
\* or of a theme application.
C8_ExitOnlyResolutionOrSet ==
    pc = "exit" => exit \in {"estimate", "set", "panic"}

\* C8 amended: main returns only with an error of the logger start, of the
\* location resolution or of a theme application (a returned error or a
\* panic); otherwise the loop goes on: a tick follows every sleep and a sleep
\* every tick.
C8_ExitOnlyOnError ==
    /\ pc = "exit" => exit \in {"logger", "estimate", "set", "panic"}
    /\ pc # "exit" => exit = "none"
    /\ exit = "logger" => estimates = 0 /\ applied = <<>>
    /\ pc = "tick" => ENABLED Tick
    /\ (pc = "sleep" /\ nticks < MaxTicks) => ENABLED Sleep

\* main returned because the logger could not be started
C8_Witness ==
    /\ pc = "exit"
    /\ exit = "logger"

\* C9: the LocationInfo is computed by one call of estimate at startup and
\* keeps that value: no tick changes sunrise or sunset or calls estimate.
C9_LocationComputedOnce ==
    /\ estimates <= 1
    /\ estimates = 0 => location = NoLocation
    /\ nticks >= 1 => estimates = 1 /\ location = estimate(env).info

\* the loop has run all its iterations
C9_Witness ==
    /\ nticks = MaxTicks
    /\ pc = "sleep"
    /\ Len(seen) = MaxTicks + 1
    /\ location # NoLocation

\* C10: when the solar calculation reports polar night or polar day,
\* estimate succeeds with sunset 23:59:59 and sunrise 00:00:00, the same for
\* both.
C10_PolarGivesSentinel ==
    (estimates = 1 /\ env.ip = "coords" /\ env.spa.kind \in {"PolarNight", "PolarDay"}) =>
        /\ location = [sunset |-> from_hms(23, 59, 59), sunrise |-> from_hms(0, 0, 0)]
        /\ exit # "estimate"
        /\ pc # "estimate"

\* polar night was reported and the process is polling
C10_Witness ==
    /\ env.ip = "coords"
    /\ env.spa.kind = "PolarNight"
    /\ estimates = 1
    /\ pc = "sleep"

\* a time of day without its fraction of a second
to_second(t) == t - (t % SubPerSec)

C12_SunsetAndSunriseKept ==
    (estimates = 1 /\ env.ip = "coords" /\ env.spa.kind = "Daylight") =>
        /\ location.sunset = (spa_sunset(env.spa) + env.tz) % DayUnits
        /\ location.sunrise = (spa_sunrise(env.spa) + env.tz) % DayUnits
        /\ pc # "estimate"
        /\ exit # "estimate"

\* a Daylight result in a zone two hours ahead of UTC: 04:00 and 16:00 UTC
\* became sunrise 06:00 and sunset 18:00
C12_Witness ==
    /\ estimates = 1
    /\ env.spa.kind = "Daylight"
    /\ env.tz = from_hms(2, 0, 0)
    /\ location = [sunset |-> from_hms(18, 0, 0), sunrise |-> from_hms(6, 0, 0)]
    /\ pc = "sleep"

\* C13: after the startup application and after every completed tick, the
\* theme of the latest Theme::set call is the remembered prev_theme, which is
\* the classification computed at that tick (at startup: the first one).
C13_AppliedIsRemembered ==
    pc = "sleep" =>
        /\ applied # <<>>
        /\ seen # <<>>
        /\ Len(seen) = nticks + 1
        /\ Last(applied).theme = prev_theme
        /\ prev_theme = Last(seen)

\* a tick has changed the theme and completed
C13_Witness ==
    /\ pc = "sleep"
    /\ nticks >= 1
    /\ Len(applied) = 2
    /\ Last(applied).at = nticks + 1
    /\ prev_theme # seen[1]

\* the find/replace command of a written (path, (dark, light)) pair
sd_command(theme, pair) ==
    IF theme = Day THEN <<"sd", pair[2][1], pair[2][2], pair[1]>>
                   ELSE <<"sd", pair[2][2], pair[2][1], pair[1]>>

\* C14: an application in which every launch succeeded has issued one
\* find/replace command for each of the four pairs written in the replacement
\* table: dark to light for Day, light to dark for Night.
C14_OneCommandPerWrittenPair ==
    (pc = "sleep" /\ cmds # <<>> /\ failed = <<>>) =>
        /\ \A i \in DOMAIN ReplacementPairs :
              \E j \in DOMAIN cmds : cmds[j] = sd_command(Last(applied).theme, ReplacementPairs[i])
        /\ Cardinality({j \in DOMAIN cmds : cmds[j][1] = "sd"}) = Len(ReplacementPairs)

\* the clock at the j-th tick of the day run (0: startup)
TimeAtTick(j) == (now + DayUnits - (nticks - j) * TickUnits) % DayUnits

C16_ReversedAlwaysNight ==
    (location # NoLocation /\ location.sunrise > location.sunset) =>
        /\ \A t \in SampleTimes \cup StartTimes \cup {now} : get_theme(location, t) = Night
        /\ \A i \in DOMAIN seen : seen[i] = Night
        /\ Len(applied) <= 1
        /\ applied # <<>> => applied = <<[theme |-> Night, at |-> 1]>>

\* sunrise 20:00, sunset 08:00: the loop has run, the clock is between the
\* two, and only the startup application was made
C16_Witness ==
    /\ location.sunrise > location.sunset
    /\ location.sunset < now
    /\ now < location.sunrise
    /\ pc = "sleep"
    /\ nticks = MaxTicks
    /\ Len(seen) = MaxTicks + 1
    /\ Len(applied) = 1

====
